---- MODULE Spec2Model ----
(***************************************************************************)
(* Model of BybitConnector (src/src/bybit_price_downloader.py): the        *)
(* constructor, the date conversion, the interval table and the paginated  *)
(* get_prices loop, with the upstream HTTP API as the environment.         *)
(*                                                                         *)
(* Text is modelled as a sequence of strings: a date string is a sequence  *)
(* of one-character strings, a literal part of a message is one element,   *)
(* and an f-string is the concatenation of its parts.                      *)
(***************************************************************************)
EXTENDS Integers, Sequences, FiniteSets, TLC

\* ------------------------------------------------------------------ bounds
MaxLimit == 3
MaxRequests == 4

\* the most rows handed to save_to_csv
MaxRows == 2

\* --------------------------------------------------------------- text help
Digits == <<"0", "1", "2", "3", "4", "5", "6", "7", "8", "9">>

IsDigit(c) == \E i \in 1..10 : Digits[i] = c

DigitVal(c) == (CHOOSE i \in 1..10 : Digits[i] = c) - 1

\* the character at position p, or "" past the end of the text
At(s, p) == IF p >= 1 /\ p <= Len(s) THEN s[p] ELSE ""

\* c is a digit character in the character class [lo-hi]
InClass(c, lo, hi) == IsDigit(c) /\ DigitVal(c) >= lo /\ DigitVal(c) <= hi

\* the decimal value of the n characters of s from position p (a leading
\* blank, which %d admits, counts as nothing)
RECURSIVE NumVal(_, _, _)
NumVal(s, p, n) ==
    IF n = 0 THEN 0
    ELSE LET c == At(s, p + n - 1)
         IN  IF IsDigit(c) THEN 10 * NumVal(s, p, n - 1) + DigitVal(c)
             ELSE NumVal(s, p, n - 1)

\* needle occurs in text as a contiguous run
Contains(text, needle) ==
    \E i \in 0..(Len(text) - Len(needle)) :
        \A j \in 1..Len(needle) : text[i + j] = needle[j]

\* --------------------------------------------- datetime.strptime, line 53
\* Each directive of "%Y-%m-%d %H:%M:%S" is the regular expression that
\* CPython's _strptime compiles for it; a matcher yields the length matched
\* at position p, 0 when the directive does not match there.
MatchY(s, p) ==
    IF \A k \in 0..3 : IsDigit(At(s, p + k)) THEN 4 ELSE 0

\* %m: 1[0-2]|0[1-9]|[1-9]
MatchMonth(s, p) ==
    LET c1 == At(s, p)
        c2 == At(s, p + 1)
    IN  IF c1 = "1" /\ InClass(c2, 0, 2) THEN 2
        ELSE IF c1 = "0" /\ InClass(c2, 1, 9) THEN 2
        ELSE IF InClass(c1, 1, 9) THEN 1
        ELSE 0

\* %d: 3[0-1]|[1-2]\d|0[1-9]|[1-9]| [1-9]
MatchDay(s, p) ==
    LET c1 == At(s, p)
        c2 == At(s, p + 1)
    IN  IF c1 = "3" /\ InClass(c2, 0, 1) THEN 2
        ELSE IF InClass(c1, 1, 2) /\ IsDigit(c2) THEN 2
        ELSE IF c1 = "0" /\ InClass(c2, 1, 9) THEN 2
        ELSE IF InClass(c1, 1, 9) THEN 1
        ELSE IF c1 = " " /\ InClass(c2, 1, 9) THEN 2
        ELSE 0

\* %H: 2[0-3]|[0-1]\d|\d
MatchHour(s, p) ==
    LET c1 == At(s, p)
        c2 == At(s, p + 1)
    IN  IF c1 = "2" /\ InClass(c2, 0, 3) THEN 2
        ELSE IF InClass(c1, 0, 1) /\ IsDigit(c2) THEN 2
        ELSE IF IsDigit(c1) THEN 1
        ELSE 0

\* %M: [0-5]\d|\d
MatchMinute(s, p) ==
    LET c1 == At(s, p)
        c2 == At(s, p + 1)
    IN  IF InClass(c1, 0, 5) /\ IsDigit(c2) THEN 2
        ELSE IF IsDigit(c1) THEN 1
        ELSE 0

\* %S: 6[0-1]|[0-5]\d|\d
MatchSecond(s, p) ==
    LET c1 == At(s, p)
        c2 == At(s, p + 1)
    IN  IF c1 = "6" /\ InClass(c2, 0, 1) THEN 2
        ELSE IF InClass(c1, 0, 5) /\ IsDigit(c2) THEN 2
        ELSE IF IsDigit(c1) THEN 1
        ELSE 0

\* the blank of the format is \s+: the run of blanks at p
RECURSIVE MatchBlanks(_, _)
MatchBlanks(s, p) ==
    IF At(s, p) = " " THEN 1 + MatchBlanks(s, p + 1) ELSE 0

\* a literal character of the format
MatchLit(s, p, c) == IF At(s, p) = c THEN 1 ELSE 0

IsLeap(y) == (y % 4 = 0 /\ y % 100 # 0) \/ y % 400 = 0

DaysInMonth(y, m) ==
    IF m = 2 THEN (IF IsLeap(y) THEN 29 ELSE 28)
    ELSE IF m \in {4, 6, 9, 11} THEN 30
    ELSE 31

DATE_FORMAT == "%Y-%m-%d %H:%M:%S"

\* the format as the sequence of its directives and literal characters
FormatParts == <<"Y", "-", "m", "-", "d", " ", "H", ":", "M", ":", "S">>

IsDirective(part) == part \in {"Y", "m", "d", "H", "M", "S"}

\* the length the part of the format matches at position p, 0 for no match
PartLen(s, p, part) ==
    CASE part = "Y" -> MatchY(s, p)
      [] part = "m" -> MatchMonth(s, p)
      [] part = "d" -> MatchDay(s, p)
      [] part = "H" -> MatchHour(s, p)
      [] part = "M" -> MatchMinute(s, p)
      [] part = "S" -> MatchSecond(s, p)
      [] part = " " -> MatchBlanks(s, p)
      [] OTHER      -> MatchLit(s, p, part)

\* one part of the format matched against the text at m.pos
MatchPart(s, part, m) ==
    IF ~m.ok THEN m
    ELSE LET n == PartLen(s, m.pos, part)
         IN  IF n = 0 THEN [m EXCEPT !.ok = FALSE]
             ELSE [ok   |-> TRUE,
                   pos  |-> m.pos + n,
                   vals |-> IF IsDirective(part)
                            THEN Append(m.vals, NumVal(s, m.pos, n))
                            ELSE m.vals]

\* the regular expression of the whole format matched from its k-th part
RECURSIVE MatchFormat(_, _, _)
MatchFormat(s, k, m) ==
    IF k > Len(FormatParts) THEN m
    ELSE CHOOSE r \in {MatchFormat(s, k + 1, m2) :
                        m2 \in {MatchPart(s, FormatParts[k], m)}} : TRUE

StrptimeFail(msg) == [ok |-> FALSE, value |-> 0, msg |-> msg]

\* ------------------------------------------------- dt.timestamp(), line 54
\* days from 1970-01-01 to the civil date y-m-d
DaysFromCivil(y, m, d) ==
    LET yy  == IF m <= 2 THEN y - 1 ELSE y
        era == yy \div 400
        yoe == yy - era * 400
        mp  == (m + 9) % 12
        doy == (153 * mp + 2) \div 5 + d - 1
        doe == yoe * 365 + yoe \div 4 - yoe \div 100 + doy
    IN  era * 146097 + doe - 719468

\* the naive datetime is read as local time; the model's local zone is UTC
LocalUtcOffset == 0

\* int(dt.timestamp()) of the datetime with fields <<Y, m, d, H, M, S>>
Timestamp(f) ==
    DaysFromCivil(f[1], f[2], f[3]) * 86400 + f[4] * 3600 + f[5] * 60 + f[6]
        - LocalUtcOffset

\* the datetime constructor's range checks on the matched fields, and the
\* check for text left over after the match
StrptimeResult(s, m) ==
    IF ~m.ok
    THEN StrptimeFail(<<"time data ", "'">> \o s
                      \o <<"'", " does not match format ", "'", DATE_FORMAT, "'">>)
    ELSE IF m.pos <= Len(s)
    THEN StrptimeFail(<<"unconverted data remains: ">>
                      \o SubSeq(s, m.pos, Len(s)))
    ELSE IF m.vals[1] < 1
    THEN StrptimeFail(<<"year 0 is out of range">>)
    ELSE IF m.vals[3] > DaysInMonth(m.vals[1], m.vals[2])
    THEN StrptimeFail(<<"day is out of range for month">>)
    ELSE IF m.vals[6] > 59
    THEN StrptimeFail(<<"second must be in 0..59">>)
    ELSE [ok |-> TRUE, value |-> Timestamp(m.vals), msg |-> <<>>]

\* int(datetime.strptime(date_str, "%Y-%m-%d %H:%M:%S").timestamp()): the
\* timestamp, or the message of the ValueError that strptime raises
Strptime(s) ==
    CHOOSE r \in {StrptimeResult(s, m) :
                    m \in {MatchFormat(s, 1, [ok |-> TRUE, pos |-> 1,
                                              vals |-> <<>>])}} : TRUE

\* ------------------------------------------------------ errors and logging
NoError == [kind |-> "none", msg |-> <<>>, cause |-> <<>>]

Raised(kind, msg, cause) == [kind |-> kind, msg |-> msg, cause |-> cause]

\* the subclasses of requests.RequestException the model raises
RequestExceptionKinds ==
    {"ConnectionError", "Timeout", "HTTPError", "JSONDecodeError"}

LogRecord(level, msg) == [level |-> level, msg |-> msg]

\* ------------------------------------------ _to_unix_timestamp, lines 41-59
\* variant: the message interpolates the date string, as the log text does
InvalidDateMessage_withValue(date_str) ==
    <<"Invalid date format: ">> \o date_str

\* the message of the ValueError of line 59
InvalidDateMessage(date_str) ==
    <<"Invalid date format. Use 'YYYY-MM-DD HH:MM:SS'.">>

\* the logger.error text of lines 56-58
InvalidDateLog(date_str) ==
    <<"Invalid date format: ">> \o date_str
        \o <<". Expected 'YYYY-MM-DD HH:MM:SS'.">>

\* variant: a failed conversion is swallowed and yields 0
to_unix_timestamp_swallow(date_str) ==
    LET r == Strptime(date_str)
    IN  [raised |-> FALSE, value |-> r.value, error |-> NoError, log |-> <<>>]

to_unix_timestamp(date_str) ==
    LET r == Strptime(date_str)
    IN  IF r.ok
        THEN [raised |-> FALSE, value |-> r.value,
              error |-> NoError, log |-> <<>>]
        ELSE [raised |-> TRUE, value |-> 0,
              error |-> Raised("ValueError", InvalidDateMessage(date_str), r.msg),
              log |-> <<LogRecord("ERROR", InvalidDateLog(date_str))>>]

\* ---------------------------------------- _interval_to_seconds, lines 61-91
KnownIntervals ==
    {"1", "3", "5", "15", "30", "60", "120", "240", "360", "720", "D", "W", "M"}

\* variant: the month is counted as 31 days
conversion_longMonth ==
    [i \in KnownIntervals |->
        CASE i = "1"   -> 60
          [] i = "3"   -> 180
          [] i = "5"   -> 300
          [] i = "15"  -> 900
          [] i = "30"  -> 1800
          [] i = "60"  -> 3600
          [] i = "120" -> 7200
          [] i = "240" -> 14400
          [] i = "360" -> 21600
          [] i = "720" -> 43200
          [] i = "D"   -> 86400
          [] i = "W"   -> 604800
          [] i = "M"   -> 2678400]

\* lines 72-86: the table of _interval_to_seconds
conversion ==
    [i \in KnownIntervals |->
        CASE i = "1"   -> 60
          [] i = "3"   -> 180
          [] i = "5"   -> 300
          [] i = "15"  -> 900
          [] i = "30"  -> 1800
          [] i = "60"  -> 3600
          [] i = "120" -> 7200
          [] i = "240" -> 14400
          [] i = "360" -> 21600
          [] i = "720" -> 43200
          [] i = "D"   -> 86400
          [] i = "W"   -> 604800
          [] i = "M"   -> 2592000]

DefaultSeconds == 86400

UnknownIntervalLog(interval) ==
    <<"Unknown interval '", interval, "'. Defaulting to 'D' (86400 seconds).">>

\* variant: the default is used without the warning, as in the earlier copy
interval_to_seconds_silent(interval) ==
    [value |-> IF interval \in DOMAIN conversion
               THEN conversion[interval] ELSE DefaultSeconds,
     log   |-> <<>>]

interval_to_seconds(interval) ==
    [value |-> IF interval \in DOMAIN conversion
               THEN conversion[interval] ELSE DefaultSeconds,
     log   |-> IF interval \notin DOMAIN conversion
               THEN <<LogRecord("WARNING", UnknownIntervalLog(interval))>>
               ELSE <<>>]

\* ------------------------------------------------------ __init__, lines 24-39
\* variant: the constructor parses start and end and rejects what fails
init_validating(category, symbol, interval, start, end) ==
    IF Strptime(start).ok /\ Strptime(end).ok
    THEN [raised |-> FALSE, error |-> NoError,
          self   |-> [category |-> category, symbol |-> symbol,
                      interval |-> interval, start |-> start, end |-> end]]
    ELSE [raised |-> TRUE,
          error  |-> Raised("ValueError", <<"invalid parameter">>, <<>>),
          self   |-> [category |-> "", symbol |-> "", interval |-> "",
                      start |-> <<>>, end |-> <<>>]]

\* the constructor stores its five arguments and does nothing else
init(category, symbol, interval, start, end) ==
    [raised |-> FALSE, error |-> NoError,
     self   |-> [category |-> category, symbol |-> symbol,
                 interval |-> interval, start |-> start, end |-> end]]

\* ------------------------------------------------- get_prices, lines 107-162
\* variant: the loop also runs when the cursor has reached the end
LoopCondition_inclusive(batch_start, end_timestamp) ==
    batch_start <= end_timestamp

\* line 114: the loop condition
LoopCondition(batch_start, end_timestamp) == batch_start < end_timestamp

Min(a, b) == IF a < b THEN a ELSE b

\* variant: the batch spans one candle whatever the limit
MaxBatchEnd_oneCandle(batch_start, limit, seconds_per_candle) ==
    batch_start + seconds_per_candle

\* line 115
MaxBatchEnd(batch_start, limit, seconds_per_candle) ==
    batch_start + (limit * seconds_per_candle)

\* variant: the batch is not cut at the end of the window
BatchEnd_uncapped(max_batch_end, end_timestamp) == max_batch_end

\* line 116
BatchEnd(max_batch_end, end_timestamp) == Min(max_batch_end, end_timestamp)

\* variant: the row count is rounded up instead of down
CandlesLimit_ceil(batch_end, batch_start, seconds_per_candle) ==
    (batch_end - batch_start + seconds_per_candle - 1) \div seconds_per_candle

\* line 117: Python's // on integers, floor division
CandlesLimit(batch_end, batch_start, seconds_per_candle) ==
    (batch_end - batch_start) \div seconds_per_candle

\* lines 119-125
Params(self, batch_start, candles_limit) ==
    [category |-> self.category, symbol |-> self.symbol,
     interval |-> self.interval, start |-> batch_start,
     limit |-> candles_limit]

\* line 131: Response.raise_for_status raises HTTPError for 4xx and 5xx
raise_for_status(status) == status >= 400 /\ status < 600

\* line 134
IsApiFailure(response_data) == response_data.retCode # 0

\* lines 135-137: response_data.get("retMsg", "Unknown error from API.")
ErrorMessage(response_data) ==
    IF response_data.hasRetMsg THEN response_data.retMsg
    ELSE <<"Unknown error from API.">>

\* variant: the API's message is left out of the exception
ApiErrorMessage_generic(error_message) == <<"API error: ", "request failed">>

\* line 139
ApiErrorMessage(error_message) == <<"API error: ">> \o error_message

\* variant: the empty page is not noticed
PageIsEmpty_never(candles) == FALSE

\* line 145: not candles
PageIsEmpty(candles) == candles = <<>>

\* variant: rows already in the accumulator are not appended again
Extend_dedup(all_candles, candles) ==
    all_candles
        \o SelectSeq(candles,
                     LAMBDA c : \A i \in 1..Len(all_candles) : all_candles[i] # c)

\* line 149: all_candles.extend(candles)
Extend(all_candles, candles) == all_candles \o candles

\* variant: the cursor is left where it was
Advance_stay(batch_start, batch_end) == batch_start

\* variant: the next batch starts one second after the end of this one
Advance_skip(batch_start, batch_end) == batch_end + 1

\* line 150
Advance(batch_start, batch_end) == batch_end

\* ----------------------------------------------------------- the upstream
\* one row of the kline list: open time, open, high, low, close, volume,
\* turnover
Candle(openTime) ==
    <<openTime, "35000", "36000", "34000", "35500", "100", "500000">>

StrayCandle ==
    <<1609462800, "35500", "36500", "34500", "36000", "200", "700000">>

\* the page an upstream that honours start and limit returns
ExactPage(req) ==
    IF req.limit >= 1
    THEN [i \in 1..req.limit |->
            Candle(req.start
                   + (i - 1) * interval_to_seconds(req.interval).value)]
    ELSE <<>>

\* a non-empty page that does not have the number of rows asked for
OtherPage(req) ==
    IF req.limit = 1 THEN <<StrayCandle, StrayCandle>> ELSE <<StrayCandle>>

PageLists(req) == {<<>>, ExactPage(req), OtherPage(req)}

Response(kind, status, json, retCode, hasRetMsg, retMsg, list) ==
    [kind |-> kind, status |-> status, json |-> json, retCode |-> retCode,
     hasRetMsg |-> hasRetMsg, retMsg |-> retMsg, list |-> list]

NoResponse == Response("none", 0, FALSE, 0, FALSE, <<>>, <<>>)

\* requests.get raises before any response exists
TransportExceptions ==
    {Response(k, 0, FALSE, 0, FALSE, <<>>, <<>>) :
        k \in {"ConnectionError", "Timeout"}}

Statuses == {200, 304, 500}

RetMsgs == {<<"API error">>}

\* the responses requests.get can return for a request
HttpResponses(req) ==
    UNION {
        {Response("http", st, FALSE, 0, FALSE, <<>>, <<>>)}
        \cup {Response("http", st, TRUE, 0, TRUE, <<"OK">>, l) :
                l \in PageLists(req)}
        \cup {Response("http", st, TRUE, 10001, TRUE, m, <<>>) : m \in RetMsgs}
        \cup {Response("http", st, TRUE, 10001, FALSE, <<>>, <<>>)}
        : st \in Statuses}

\* ------------------------------------------- save_to_csv, lines 164-194
\* a field is a sequence of characters, a row a sequence of fields, and the
\* file the sequence of characters csv.writer hands to it (newline="")
Delimiter == ","

QuoteChar == "\""

LineTerminator == <<"\r", "\n">>

RECURSIVE Join(_, _)
Join(parts, sep) ==
    IF parts = <<>>
    THEN <<>>
    ELSE IF Len(parts) = 1
         THEN parts[1]
         ELSE parts[1] \o sep \o Join(Tail(parts), sep)

\* csv.writer, QUOTE_MINIMAL: a field is quoted when it holds the delimiter,
\* the quote character or a character of the line terminator
NeedsQuote(field) ==
    \E i \in 1..Len(field) :
        field[i] \in {Delimiter, QuoteChar, LineTerminator[1], LineTerminator[2]}

\* doublequote: a quote character inside a field is written twice
DoubleQuotes(field) ==
    Join([i \in 1..Len(field) |->
             IF field[i] = QuoteChar
             THEN <<QuoteChar, QuoteChar>>
             ELSE <<field[i]>>], <<>>)

\* variant: fields are written as they are
WriteField_raw(field) == field

WriteField(field) ==
    IF NeedsQuote(field)
    THEN <<QuoteChar>> \o DoubleQuotes(field) \o <<QuoteChar>>
    ELSE field

\* writer.writerow: a row of one empty field is written as ""
WriteRow(row) ==
    (IF row = << <<>> >>
     THEN <<QuoteChar, QuoteChar>>
     ELSE Join([i \in 1..Len(row) |-> WriteField(row[i])], <<Delimiter>>))
        \o LineTerminator

\* line 190: writer.writerows(candles)
WriteRows(rows) == Join([i \in 1..Len(rows) |-> WriteRow(rows[i])], <<>>)

\* lines 187-189
CsvHeader ==
    <<(<<"timestamp">>), (<<"open">>), (<<"high">>), (<<"low">>),
      (<<"close">>), (<<"volume">>), (<<"turnover">>)>>

\* line 181
FileName(connector) ==
    <<connector.symbol, "_", connector.interval, "_">> \o connector.start
        \o <<"_">> \o connector.end \o <<".csv">>

\* line 182: os.path.join(directory, filename)
FilePath(directory, connector) == <<directory, "/">> \o FileName(connector)

NoFile == <<"no file">>

NoCsv ==
    [pc |-> "none", candles |-> <<>>, directory |-> "", exists |-> FALSE,
     path |-> <<>>, file |-> NoFile, error |-> NoError, log |-> <<>>]

\* ------------------------------------------------------------------ inputs
Pad2(n) == <<Digits[(n \div 10) + 1], Digits[(n % 10) + 1]>>

DateText(mo, d, h, mi, sec) ==
    <<"1", "9", "7", "0", "-">> \o Pad2(mo) \o <<"-">> \o Pad2(d) \o <<" ">>
        \o Pad2(h) \o <<":">> \o Pad2(mi) \o <<":">> \o Pad2(sec)

ValidDates ==
    {DateText(1, 1, 0, 0, 0), DateText(1, 1, 0, 1, 0), DateText(1, 1, 0, 2, 30),
     DateText(1, 1, 0, 3, 0), DateText(1, 2, 0, 0, 0)}

InvalidDates ==
    {DateText(1, 1, 25, 0, 0), DateText(2, 30, 0, 0, 0),
     DateText(1, 1, 0, 0, 0) \o <<"Z">>}

DateInputs == ValidDates \cup InvalidDates

IntervalInputs == {"1", "D", "X"}

ArgvInputs ==
    [category : {"inverse"}, symbol : {"BTCUSD"}, interval : IntervalInputs,
     start : DateInputs, end : DateInputs]

RepeatArgv ==
    [category : {"inverse"}, symbol : {"BTCUSD"},
     interval : KnownIntervals \cup {"X"},
     start : {DateText(1, 1, 0, 0, 0)},
     end : {DateText(1, 1, 0, 3, 0), DateText(2, 30, 0, 0, 0)}]

\* rows for save_to_csv: a candle, rows of no field and of empty fields, and
\* fields that hold the delimiter, quotes, line breaks and blanks
CsvRows ==
    {<<(<<"6", "0">>), (<<"1">>), (<<"2">>), (<<"0">>), (<<"1">>), (<<"5">>),
       (<<"9", "0">>)>>,
     <<>>,
     <<(<<>>)>>,
     <<(<<>>), (<<>>)>>,
     <<(<<"a", ",", "b">>), (<<"\"">>)>>,
     <<(<<"\r", "\n">>), (<<"x">>)>>,
     <<(<<"\n">>)>>,
     <<(<<"a", "\r">>)>>,
     <<(<<"\"", "\"">>), (<<" ">>)>>}

CsvInputs == UNION {[1..n -> CsvRows] : n \in 0..MaxRows}

\* ------------------------------------------------------------------- state
VARIABLES
    pc,                 \* where the caller's script is
    argv,               \* the arguments the constructor is called with
    self,               \* the connector's attributes
    limit,              \* get_prices' parameter
    start_timestamp, end_timestamp, seconds_per_candle,
    all_candles, batch_start, batch_end, candles_limit,
    requests,           \* the params of the requests issued by this call
    pages,              \* the row lists this call extracted, in order
    response,           \* the response that ended this call, if one did
    result,             \* the list get_prices returned
    error,              \* the exception that reached the caller
    log,                \* the records this call handed to the logger
    prior,              \* how the call before this one ended, where followed
    csv                 \* a save_to_csv call: its rows, the directory, the file

vars ==
    <<pc, argv, self, limit, start_timestamp, end_timestamp,
      seconds_per_candle, all_candles, batch_start, batch_end, candles_limit,
      requests, pages, response, result, error, log, prior, csv>>

locals ==
    <<limit, start_timestamp, end_timestamp, seconds_per_candle, all_candles,
      batch_start, batch_end, candles_limit>>

NoSelf ==
    [category |-> "", symbol |-> "", interval |-> "", start |-> <<>>,
     end |-> <<>>]

Init ==
    /\ pc = "start"
    /\ argv \in ArgvInputs
    /\ self = NoSelf
    /\ limit = 0
    /\ start_timestamp = 0
    /\ end_timestamp = 0
    /\ seconds_per_candle = 0
    /\ all_candles = <<>>
    /\ batch_start = 0
    /\ batch_end = 0
    /\ candles_limit = 0
    /\ requests = <<>>
    /\ pages = <<>>
    /\ response = NoResponse
    /\ result = <<>>
    /\ error = NoError
    /\ log = <<>>
    /\ prior = "untracked"
    /\ csv = NoCsv

\* the same start, with every interval code of the table and one outside it,
\* one window, and the way each earlier call ended followed in prior
RepeatInit ==
    /\ pc = "start"
    /\ argv \in RepeatArgv
    /\ self = NoSelf
    /\ limit = 0
    /\ start_timestamp = 0
    /\ end_timestamp = 0
    /\ seconds_per_candle = 0
    /\ all_candles = <<>>
    /\ batch_start = 0
    /\ batch_end = 0
    /\ candles_limit = 0
    /\ requests = <<>>
    /\ pages = <<>>
    /\ response = NoResponse
    /\ result = <<>>
    /\ error = NoError
    /\ log = <<>>
    /\ prior = "none"
    /\ csv = NoCsv

\* connector = BybitConnector(category, symbol, interval, start, end)
Construct ==
    /\ pc = "start"
    /\ LET r == init(argv.category, argv.symbol, argv.interval, argv.start,
                     argv.end)
       IN  IF r.raised
           THEN /\ pc' = "init_raised"
                /\ error' = r.error
                /\ self' = self
           ELSE /\ pc' = "idle"
                /\ error' = NoError
                /\ self' = r.self
    /\ UNCHANGED <<argv, prior, csv, locals, requests, pages, response, result, log>>

\* variant: the cursor and the accumulator live on the connector, so a later
\* call goes on where the call before it stopped
GetPrices_resume(lim) ==
    /\ pc \in {"idle", "returned", "raised"}
    /\ \E s \in {to_unix_timestamp(self.start)},
          e \in {to_unix_timestamp(self.end)},
          i \in {interval_to_seconds(self.interval)} :
           IF s.raised \/ e.raised
           THEN /\ pc' = "raised"
                /\ error' = (IF s.raised THEN s.error ELSE e.error)
                /\ log' = (IF s.raised THEN s.log ELSE e.log)
                /\ start_timestamp' = (IF s.raised THEN 0 ELSE s.value)
                /\ end_timestamp' = 0
                /\ seconds_per_candle' = 0
                /\ UNCHANGED <<batch_start, all_candles>>
           ELSE /\ pc' = "loop"
                /\ error' = NoError
                /\ log' = i.log
                /\ start_timestamp' = s.value
                /\ end_timestamp' = e.value
                /\ seconds_per_candle' = i.value
                /\ batch_start' = (IF pc = "idle" THEN s.value ELSE batch_start)
                /\ all_candles' = (IF pc = "idle" THEN <<>> ELSE all_candles)
    /\ limit' = lim
    /\ batch_end' = 0
    /\ candles_limit' = 0
    /\ requests' = <<>>
    /\ pages' = <<>>
    /\ response' = NoResponse
    /\ result' = <<>>
    /\ prior' = (IF prior = "untracked" THEN prior ELSE pc)
    /\ UNCHANGED <<argv, self, csv>>

\* connector.get_prices(lim), lines 107-112: the conversions and the locals
GetPrices(lim) ==
    /\ pc \in {"idle", "returned", "raised"}
    /\ \E s \in {to_unix_timestamp(self.start)},
          e \in {to_unix_timestamp(self.end)},
          i \in {interval_to_seconds(self.interval)} :
           IF s.raised
           THEN /\ pc' = "raised"
                /\ error' = s.error
                /\ log' = s.log
                /\ start_timestamp' = 0
                /\ end_timestamp' = 0
                /\ seconds_per_candle' = 0
                /\ batch_start' = 0
           ELSE IF e.raised
           THEN /\ pc' = "raised"
                /\ error' = e.error
                /\ log' = e.log
                /\ start_timestamp' = s.value
                /\ end_timestamp' = 0
                /\ seconds_per_candle' = 0
                /\ batch_start' = 0
           ELSE /\ pc' = "loop"
                /\ error' = NoError
                /\ log' = i.log
                /\ start_timestamp' = s.value
                /\ end_timestamp' = e.value
                /\ seconds_per_candle' = i.value
                /\ batch_start' = s.value
    /\ limit' = lim
    /\ all_candles' = <<>>
    /\ batch_end' = 0
    /\ candles_limit' = 0
    /\ requests' = <<>>
    /\ pages' = <<>>
    /\ response' = NoResponse
    /\ result' = <<>>
    /\ prior' = (IF prior = "untracked" THEN prior ELSE pc)
    /\ UNCHANGED <<argv, self, csv>>

\* lines 114-130: the loop condition holds and the next request goes out
IssueRequest ==
    /\ pc = "loop"
    /\ LoopCondition(batch_start, end_timestamp)
    /\ Len(requests) < MaxRequests
    /\ LET max_batch_end == MaxBatchEnd(batch_start, limit, seconds_per_candle)
           be == BatchEnd(max_batch_end, end_timestamp)
           cl == CandlesLimit(be, batch_start, seconds_per_candle)
       IN  /\ batch_end' = be
           /\ candles_limit' = cl
           /\ requests' = Append(requests, Params(self, batch_start, cl))
    /\ pc' = "await"
    /\ UNCHANGED <<argv, prior, csv, self, limit, start_timestamp, end_timestamp,
                   seconds_per_candle, all_candles, batch_start, pages,
                   response, result, error, log>>

FetchedLog(candles) ==
    LogRecord("INFO", <<"Fetched ", ToString(Len(candles)), " candlesticks.">>)

\* lines 114, 161-162: the loop condition fails and the rows are returned
ReturnCandles ==
    /\ pc = "loop"
    /\ ~LoopCondition(batch_start, end_timestamp)
    /\ pc' = "returned"
    /\ result' = all_candles
    /\ log' = Append(log, FetchedLog(all_candles))
    /\ UNCHANGED <<argv, prior, csv, self, locals, requests, pages, response, error>>

LastRequest == requests[Len(requests)]

\* variant: a failed requests.get is tried again
TransportFailure_retry ==
    /\ pc = "await"
    /\ Len(requests) < MaxRequests
    /\ \E r \in TransportExceptions :
        /\ response' = r
        /\ log' = Append(log, LogRecord("ERROR",
                                <<"HTTP request failed: ", r.kind>>))
    /\ requests' = Append(requests, requests[Len(requests)])
    /\ pc' = "await"
    /\ UNCHANGED <<argv, prior, csv, self, locals, pages, result, error>>

\* lines 128-130, 152-154: requests.get raises; logged and raised again
TransportFailure ==
    /\ pc = "await"
    /\ \E r \in TransportExceptions :
        /\ response' = r
        /\ error' = Raised(r.kind, <<r.kind>>, <<>>)
        /\ log' = Append(log, LogRecord("ERROR",
                                <<"HTTP request failed: ", r.kind>>))
    /\ pc' = "raised"
    /\ UNCHANGED <<argv, prior, csv, self, locals, requests, pages, result>>

\* lines 131, 152-154: raise_for_status raises HTTPError
HttpErrorStatus ==
    /\ pc = "await"
    /\ \E r \in HttpResponses(LastRequest) :
        /\ raise_for_status(r.status)
        /\ response' = r
        /\ error' = Raised("HTTPError", <<ToString(r.status), " Error">>, <<>>)
        /\ log' = Append(log, LogRecord("ERROR",
                    <<"HTTP request failed: ", ToString(r.status), " Error">>))
    /\ pc' = "raised"
    /\ UNCHANGED <<argv, prior, csv, self, locals, requests, pages, result>>

\* line 132: the body is not JSON and response.json() raises; the handler
\* that logs it depends on whether the installed requests derives its
\* JSONDecodeError from RequestException
BodyNotJson ==
    /\ pc = "await"
    /\ \E r \in HttpResponses(LastRequest), level \in {"ERROR", "CRITICAL"} :
        /\ ~raise_for_status(r.status)
        /\ ~r.json
        /\ response' = r
        /\ error' = Raised("JSONDecodeError", <<"Expecting value">>, <<>>)
        /\ log' = Append(log, LogRecord(level, <<"Expecting value">>))
    /\ pc' = "raised"
    /\ UNCHANGED <<argv, prior, csv, self, locals, requests, pages, result>>

\* lines 134-139, 155-159: retCode is not 0
ApiFailure ==
    /\ pc = "await"
    /\ \E r \in HttpResponses(LastRequest) :
        /\ ~raise_for_status(r.status)
        /\ r.json
        /\ IsApiFailure(r)
        /\ LET error_message == ErrorMessage(r)
           IN  /\ error' = Raised("ValueError",
                                  ApiErrorMessage(error_message), <<>>)
               /\ log' = log \o
                    <<LogRecord("ERROR",
                        <<"API returned an error: ">> \o error_message),
                      LogRecord("CRITICAL",
                        <<"Unexpected error during API request: ">>
                            \o ApiErrorMessage(error_message))>>
        /\ response' = r
    /\ pc' = "raised"
    /\ UNCHANGED <<argv, prior, csv, self, locals, requests, pages, result>>

\* lines 141-147, 161-162: an empty row list breaks the loop
EmptyPage ==
    /\ pc = "await"
    /\ \E r \in HttpResponses(LastRequest) :
        /\ ~raise_for_status(r.status)
        /\ r.json
        /\ ~IsApiFailure(r)
        /\ PageIsEmpty(r.list)
        /\ response' = r
        /\ pages' = Append(pages, r.list)
    /\ pc' = "returned"
    /\ result' = all_candles
    /\ log' = log \o
            <<LogRecord("INFO", <<"No more data available for the given range.">>),
              FetchedLog(all_candles)>>
    /\ UNCHANGED <<argv, prior, csv, self, locals, requests, error>>

\* lines 141-150: the rows are appended and the cursor advances; response
\* and response_data are rebound by the next request before they are read
RowsPage ==
    /\ pc = "await"
    /\ \E r \in HttpResponses(LastRequest) :
        /\ ~raise_for_status(r.status)
        /\ r.json
        /\ ~IsApiFailure(r)
        /\ ~PageIsEmpty(r.list)
        /\ pages' = Append(pages, r.list)
        /\ all_candles' = Extend(all_candles, r.list)
    /\ batch_start' = Advance(batch_start, batch_end)
    /\ pc' = "loop"
    /\ UNCHANGED <<argv, prior, csv, self, limit, start_timestamp, end_timestamp,
                   seconds_per_candle, batch_end, candles_limit, requests,
                   response, result, error, log>>

Next ==
    \/ Construct
    \/ \E lim \in 0..MaxLimit : GetPrices(lim)
    \/ IssueRequest
    \/ ReturnCandles
    \/ TransportFailure
    \/ HttpErrorStatus
    \/ BodyNotJson
    \/ ApiFailure
    \/ EmptyPage
    \/ RowsPage

Spec == Init /\ [][Next]_vars

\* the same program, started from RepeatInit
RepeatSpec == RepeatInit /\ [][Next]_vars

\* ---------------------------------------------- save_to_csv as a program
\* a connector as in lines 200-206 and a save_to_csv call about to be made
CsvInit ==
    /\ pc = "idle"
    /\ argv = [category |-> "inverse", symbol |-> "BTCUSD", interval |-> "M",
               start |-> DateText(1, 1, 0, 0, 0),
               end |-> DateText(1, 2, 0, 0, 0)]
    /\ self = init(argv.category, argv.symbol, argv.interval, argv.start,
                   argv.end).self
    /\ limit = 0
    /\ start_timestamp = 0
    /\ end_timestamp = 0
    /\ seconds_per_candle = 0
    /\ all_candles = <<>>
    /\ batch_start = 0
    /\ batch_end = 0
    /\ candles_limit = 0
    /\ requests = <<>>
    /\ pages = <<>>
    /\ response = NoResponse
    /\ result = <<>>
    /\ error = NoError
    /\ log = <<>>
    /\ prior = "untracked"
    /\ csv \in {[pc |-> "start", candles |-> c, directory |-> "./data/raw",
                 exists |-> x, path |-> <<>>, file |-> NoFile,
                 error |-> NoError, log |-> <<>>] :
                    c \in CsvInputs, x \in BOOLEAN}

\* lines 177-191: the directory is made, the header and the rows are written
SaveToCsv ==
    /\ csv.pc = "start"
    /\ \E file_path \in {FilePath(csv.directory, self)} :
        csv' = [csv EXCEPT
                   !.pc = "saved",
                   !.exists = TRUE,
                   !.path = file_path,
                   !.file = WriteRow(CsvHeader) \o WriteRows(csv.candles),
                   !.log = <<LogRecord("INFO",
                                 <<"Data has been saved to ">> \o file_path
                                     \o <<".">>)>>]
    /\ UNCHANGED <<pc, argv, self, locals, requests, pages, response, result,
                   error, log, prior>>

\* lines 177-185, 192-194: open raises; the error is logged and raised again
SaveToCsvRaises ==
    /\ csv.pc = "start"
    /\ \E file_path \in {FilePath(csv.directory, self)} :
        csv' = [csv EXCEPT
                   !.pc = "raised",
                   !.exists = TRUE,
                   !.path = file_path,
                   !.error = Raised("IOError", <<"open failed">>, <<>>),
                   !.log = <<LogRecord("ERROR",
                                 <<"Failed to write data to ">> \o file_path
                                     \o <<": ", "open failed">>)>>]
    /\ UNCHANGED <<pc, argv, self, locals, requests, pages, response, result,
                   error, log, prior>>

CsvNext ==
    \/ SaveToCsv
    \/ SaveToCsvRaises

CsvSpec == CsvInit /\ [][CsvNext]_vars

\* ------------------------------------------------------------- properties
Parses(date_str) == Strptime(date_str).ok

DatesParse == Parses(self.start) /\ Parses(self.end)

\* a get_prices call has been made on the connector
Called == pc \in {"loop", "await", "returned", "raised"}

\* every request of this call was answered with the number of rows it asked for
PagesAsAsked ==
    /\ Len(pages) = Len(requests)
    /\ \A i \in 1..Len(requests) : Len(pages[i]) = requests[i].limit

RECURSIVE Flatten(_)
Flatten(lists) ==
    IF lists = <<>> THEN <<>> ELSE Head(lists) \o Flatten(Tail(lists))

CeilDiv(a, b) == (a + b - 1) \div b

\* C1: with start < end, a known interval and a page limit of at least 1,
\* a call whose pages each held exactly the rows its request asked for
\* returns floor((end - start) / secondsPerCandle) rows.
C1_RowCount ==
    (/\ pc = "returned"
     /\ DatesParse
     /\ Strptime(self.start).value < Strptime(self.end).value
     /\ self.interval \in KnownIntervals
     /\ limit >= 1
     /\ PagesAsAsked)
    => Len(result) = (Strptime(self.end).value - Strptime(self.start).value)
                        \div conversion[self.interval]

\* a call over a window that is no multiple of the candle length, answered
\* as asked over three requests
C1_Witness ==
    /\ pc = "returned"
    /\ self.interval \in KnownIntervals
    /\ limit >= 1
    /\ PagesAsAsked
    /\ Len(requests) = 3
    /\ (end_timestamp - start_timestamp) % seconds_per_candle # 0
    /\ Len(result) = 2

\* the requests of this call run through the window in order, each starting
\* where the rows asked for by the one before end
RequestsChain ==
    /\ Len(requests) >= 1 => requests[1].start = start_timestamp
    /\ \A i \in 1..(Len(requests) - 1) :
        /\ requests[i + 1].start
             = requests[i].start + requests[i].limit * seconds_per_candle
        /\ requests[i + 1].start > requests[i].start

\* C2 as stated: for every call, consecutive requests satisfy
\* start(i+1) = start(i) + limit(i) * secondsPerCandle, the first request
\* starts at the start timestamp, and the start parameters strictly increase.
C2_Original == Called => RequestsChain

\* C2, amended: the same for every call whose page limit is at least 1.
C2_RequestsChain == (Called /\ limit >= 1) => RequestsChain

\* three requests of a call with limit >= 1, one of them answered with a
\* number of rows other than the one asked for
C2_Witness ==
    /\ Called
    /\ limit >= 1
    /\ Len(requests) >= 3
    /\ \E i \in 1..Len(pages) : Len(pages[i]) # requests[i].limit

\* C3: a call whose start timestamp equals or exceeds the end timestamp
\* issues no request, raises nothing and returns an empty list.
C3_EmptyWindow ==
    (/\ Called
     /\ DatesParse
     /\ Strptime(self.start).value >= Strptime(self.end).value)
    => /\ pc \in {"loop", "returned"}
       /\ requests = <<>>
       /\ error = NoError
       /\ pc = "returned" => result = <<>>

\* a call with start after end has returned
C3_Witness ==
    /\ pc = "returned"
    /\ DatesParse
    /\ Strptime(self.start).value > Strptime(self.end).value
    /\ requests = <<>>
    /\ result = <<>>

\* the response the call read had a retCode other than 0
ApiFailed ==
    /\ response.kind = "http"
    /\ ~(response.status >= 400 /\ response.status < 600)
    /\ response.json
    /\ response.retCode # 0

\* C4: when the body of page k has retCode # 0, the call ends with the API
\* error, whose message contains the body's retMsg, and returns no rows.
C4_ApiError ==
    ApiFailed
    => /\ pc = "raised"
       /\ error.kind = "ValueError"
       /\ Head(error.msg) = "API error: "
       /\ response.hasRetMsg => Contains(error.msg, response.retMsg)
       /\ result = <<>>

\* the API error on a later page, after rows were fetched
C4_Witness ==
    /\ ApiFailed
    /\ response.hasRetMsg
    /\ Len(requests) >= 2
    /\ all_candles # <<>>
    /\ pc = "raised"

\* the request failed at transport level: no response, or a non-2xx status
TransportFailed ==
    \/ response.kind \in {"ConnectionError", "Timeout"}
    \/ /\ response.kind = "http"
       /\ ~(response.status >= 200 /\ response.status < 300)

\* C5: a connection error, a timeout or a non-2xx status on page k ends the
\* call with a requests.RequestException and no rows are returned.
C5_TransportError ==
    TransportFailed
    => /\ pc = "raised"
       /\ error.kind \in RequestExceptionKinds
       /\ result = <<>>

\* C6: an empty row list ends the call at once without an error: no further
\* request follows it and the rows of the pages before it are returned.
C6_EmptyPageEnds ==
    (Len(pages) >= 1 /\ pages[Len(pages)] = <<>>)
    => /\ pc = "returned"
       /\ error = NoError
       /\ Len(requests) = Len(pages)
       /\ result = Flatten(SubSeq(pages, 1, Len(pages) - 1))

\* an empty page after a page with rows, with the window not yet covered
C6_Witness ==
    /\ Len(pages) >= 2
    /\ pages[Len(pages)] = <<>>
    /\ batch_start < end_timestamp
    /\ result # <<>>
    /\ pc = "returned"

\* the first of start and end that does not parse
Offending == IF ~Parses(self.start) THEN self.start ELSE self.end

\* C7: when start or end does not parse, the call raises the ValueError
\* that wraps strptime's, and no request has been issued.
C7_InvalidDateFirst ==
    (Called /\ ~DatesParse)
    => /\ pc = "raised"
       /\ error.kind = "ValueError"
       /\ error.cause = Strptime(Offending).msg
       /\ requests = <<>>
       /\ response = NoResponse

\* the call raised for an end string that does not parse, start being fine
C7_Witness ==
    /\ pc = "raised"
    /\ Parses(self.start)
    /\ ~Parses(self.end)
    /\ requests = <<>>

\* C8 as stated: construction fails whenever start or end does not parse.
C8_Original ==
    (pc # "start" /\ ~(Parses(argv.start) /\ Parses(argv.end)))
    => pc = "init_raised"

\* C8, amended: construction never fails; the connector holds the five
\* arguments as given, also a start or an end that does not parse.
C8_ConstructionStores ==
    pc # "start"
    => /\ pc # "init_raised"
       /\ self = [category |-> argv.category, symbol |-> argv.symbol,
                  interval |-> argv.interval, start |-> argv.start,
                  end |-> argv.end]

\* a connector exists whose start does not parse
C8_Witness ==
    /\ pc = "idle"
    /\ ~Parses(self.start)
    /\ self.start = argv.start

\* the call raised the error of a failed date conversion
DateErrorRaised == pc = "raised" /\ ~DatesParse

\* C9 as stated: that error carries the offending date string, in its
\* message or in the strptime error it wraps.
C9_Original ==
    DateErrorRaised
    => \/ Contains(error.msg, Offending)
       \/ Contains(error.cause, Offending)

\* C9, amended: that error has the fixed message of line 59, which does not
\* contain the date string; the string is in the record logged before it.
C9_FixedMessage ==
    DateErrorRaised
    => /\ error.msg = <<"Invalid date format. Use 'YYYY-MM-DD HH:MM:SS'.">>
       /\ ~Contains(error.msg, Offending)
       /\ Len(log) = 1
       /\ log[1].level = "ERROR"
       /\ Contains(log[1].msg, Offending)

\* the error for a date that strptime rejects without naming it
C9_Witness ==
    /\ DateErrorRaised
    /\ ~Contains(error.cause, Offending)
    /\ Contains(log[1].msg, Offending)

\* C10: with start < end and a page limit of at least 1, a call answered as
\* asked issues ceil(floor((end - start) / secondsPerCandle) / limit)
\* requests.
C10_MinimalRequests ==
    (/\ pc = "returned"
     /\ start_timestamp < end_timestamp
     /\ limit >= 1
     /\ PagesAsAsked)
    => Len(requests)
         = CeilDiv((end_timestamp - start_timestamp) \div seconds_per_candle,
                   limit)

\* the window of this call, in seconds
Window == end_timestamp - start_timestamp

\* C11: when the whole window fits in one page and that page has rows, the
\* call issues exactly one request and returns exactly the page's rows.
C11_SinglePage ==
    (/\ Called
     /\ DatesParse
     /\ 0 < Window
     /\ Window <= limit * seconds_per_candle)
    => /\ Len(requests) <= 1
       /\ (Len(pages) = 1 /\ pages[1] # <<>>)
            => /\ pc \in {"loop", "returned"}
               /\ all_candles = pages[1]
               /\ pc = "returned" => (result = pages[1] /\ Len(requests) = 1)

\* one request for a window of two and a half candles under a limit of 3,
\* answered with two rows, which are returned
C11_Witness ==
    /\ pc = "returned"
    /\ 0 < Window
    /\ Window <= limit * seconds_per_candle
    /\ Window % seconds_per_candle # 0
    /\ Len(requests) = 1
    /\ Len(result) = 2
    /\ result = pages[1]

\* C12: an interval code outside the table resolves to 86400 seconds with a
\* warning and does not make the call fail: the call goes on with 86400 and
\* raises only what a response makes it raise.
C12_UnknownInterval ==
    (/\ Called
     /\ DatesParse
     /\ self.interval \notin KnownIntervals)
    => /\ seconds_per_candle = 86400
       /\ Len(log) >= 1
       /\ log[1].level = "WARNING"
       /\ Contains(log[1].msg, <<self.interval>>)
       /\ pc = "raised" => response # NoResponse
       /\ \A i \in 1..Len(requests) :
            /\ requests[i].interval = self.interval
            /\ requests[i].limit = (Min(requests[i].start + limit * 86400,
                                        end_timestamp)
                                    - requests[i].start) \div 86400

\* a call with an unknown interval that asked for one day's candle and
\* returned rows
C12_Witness ==
    /\ pc = "returned"
    /\ self.interval \notin KnownIntervals
    /\ Len(requests) = 1
    /\ requests[1].limit = 1
    /\ result # <<>>

\* C14: every request of a call with a page limit of at least 1 starts
\* inside the window, asks for between 0 and limit rows, and the rows it
\* asks for end no later than the end timestamp.
C14_RequestBounds ==
    (Called /\ limit >= 1)
    => \A i \in 1..Len(requests) :
        /\ start_timestamp <= requests[i].start
        /\ requests[i].start < end_timestamp
        /\ 0 <= requests[i].limit
        /\ requests[i].limit <= limit
        /\ requests[i].start + requests[i].limit * seconds_per_candle
             <= end_timestamp

\* a second request that asks for at least one row and fewer than the limit
C14_Witness ==
    /\ Called
    /\ limit >= 2
    /\ Len(requests) = 2
    /\ requests[2].limit >= 1
    /\ requests[2].limit < limit

\* the response recorded is one the call fails on: requests.get raised,
\* raise_for_status raised, or the body read had a retCode other than 0
RequestFailed ==
    \/ response.kind \in {"ConnectionError", "Timeout"}
    \/ response.kind = "http" /\ response.status >= 400 /\ response.status < 600
    \/ ApiFailed

C16_Terminates ==
    [][(/\ Called'
        /\ DatesParse
        /\ limit' >= 1
        /\ start_timestamp' < end_timestamp')
       => /\ Len(requests')
               + (IF pc' = "loop" /\ batch_start' < end_timestamp'
                  THEN CeilDiv(end_timestamp' - batch_start',
                               limit' * seconds_per_candle')
                  ELSE 0)
               <= CeilDiv(Window', limit' * seconds_per_candle')
          /\ (pc = "await" /\ pc' = "loop") => batch_start' > batch_start]_vars

\* a call that used up its bound of three requests, one of them answered
\* with a number of rows other than the one asked for
C16_Witness ==
    /\ Called
    /\ limit >= 1
    /\ start_timestamp < end_timestamp
    /\ Len(requests) = 3
    /\ CeilDiv(Window, limit * seconds_per_candle) = 3
    /\ \E i \in 1..Len(pages) : Len(pages[i]) # requests[i].limit

\* C17: the list a call returns is the concatenation, in request order, of
\* the row lists of the pages it received, whatever their sizes.
C17_Concatenation ==
    /\ pc = "returned" => result = Flatten(pages)
    /\ Called => all_candles = Flatten(pages)

\* three pages returned, with the same row in two of them and a page of
\* another size than asked for
C17_Witness ==
    /\ pc = "returned"
    /\ Len(pages) = 3
    /\ Len(result) >= 3
    /\ \E i, j \in 1..Len(result) : i # j /\ result[i] = result[j]
    /\ \E i \in 1..Len(pages) : Len(pages[i]) > requests[i].limit

\* the call raised the API error
ApiErrorRaised ==
    /\ pc = "raised"
    /\ error.kind = "ValueError"
    /\ error.msg # <<>>
    /\ Head(error.msg) = "API error: "

\* C18: a response with a non-2xx status is a transport failure whatever
\* its body: with a body whose retCode is not 0 the call raises the
\* transport error, and the API error is raised only after a 2xx response.
C18_StatusFirst ==
    /\ (/\ response.kind = "http"
        /\ ~(response.status >= 200 /\ response.status < 300)
        /\ response.json
        /\ response.retCode # 0)
       => (pc = "raised" /\ error.kind \in RequestExceptionKinds)
    /\ ApiErrorRaised => (response.status >= 200 /\ response.status < 300)

\* C19: get_prices leaves the connector's attributes alone and keeps nothing
\* from one call to the next: a call made after an earlier one returned or
\* raised starts with an empty accumulator and, when the dates parse, with
\* the cursor at the start timestamp; its first request starts there, and
\* at every moment its accumulator holds the rows of its own pages only,
\* which is what it returns.
C19_NoCarryOver ==
    [][/\ pc # "start" => self' = self
       /\ pc \in {"returned", "raised"}
          => /\ prior' = pc
             /\ limit' \in 0..MaxLimit
             /\ all_candles' = <<>>
             /\ requests' = <<>>
             /\ pages' = <<>>
             /\ result' = <<>>
             /\ response' = NoResponse
             /\ (pc' = "raised") = ~DatesParse
             /\ pc' # "raised"
                => /\ pc' = "loop"
                   /\ error' = NoError
                   /\ batch_start' = Strptime(self.start).value
                   /\ start_timestamp' = Strptime(self.start).value
                   /\ end_timestamp' = Strptime(self.end).value
                   /\ seconds_per_candle'
                          = interval_to_seconds(self.interval).value
       /\ (Called' /\ prior' \in {"returned", "raised"})
          => /\ all_candles' = Flatten(pages')
             /\ pc' = "returned" => result' = Flatten(pages')
             /\ requests' # <<>> => requests'[1].start = start_timestamp'
             /\ \A i \in 1..Len(requests') :
                    /\ requests'[i].interval = self.interval
                    /\ requests'[i].symbol = self.symbol
                    /\ requests'[i].category = self.category]_vars

\* a call that returned rows of three pages, made on a connector whose call
\* before it had raised
C19_Witness ==
    /\ prior = "raised"
    /\ pc = "returned"
    /\ Len(requests) = 3
    /\ requests[1].start = start_timestamp
    /\ Len(result) >= 3

\* the table as the description of _interval_to_seconds gives it
TableValue(code) ==
    CASE code = "1"   -> 60
      [] code = "3"   -> 180
      [] code = "5"   -> 300
      [] code = "15"  -> 900
      [] code = "30"  -> 1800
      [] code = "60"  -> 3600
      [] code = "120" -> 7200
      [] code = "240" -> 14400
      [] code = "360" -> 21600
      [] code = "720" -> 43200
      [] code = "D"   -> 86400
      [] code = "W"   -> 604800
      [] code = "M"   -> 2592000

\* C20: _interval_to_seconds gives each of the thirteen known codes its
\* table value, without a warning; whatever the code, the value is a
\* positive integer, so get_prices never divides by zero when it computes
\* the limit of a request.
C20_IntervalTable ==
    /\ Cardinality(KnownIntervals) = 13
    /\ (pc # "start" /\ self.interval \in KnownIntervals)
       => /\ interval_to_seconds(self.interval).value
                = TableValue(self.interval)
          /\ interval_to_seconds(self.interval).log = <<>>
    /\ pc # "start"
       => /\ interval_to_seconds(self.interval).value \in Nat
          /\ interval_to_seconds(self.interval).value > 0
    /\ pc \in {"loop", "await", "returned"}
       => /\ seconds_per_candle = interval_to_seconds(self.interval).value
          /\ seconds_per_candle > 0
          /\ self.interval \in KnownIntervals
             => /\ seconds_per_candle = TableValue(self.interval)
                /\ log = <<>> \/ log[1].level # "WARNING"

\* a request computed with the month's number of seconds
C20_Witness ==
    /\ pc = "await"
    /\ self.interval = "M"
    /\ seconds_per_candle = 2592000
    /\ Len(requests) = 1
    /\ requests[1].limit = 0

\* csv.reader on the file opened with newline="": one character more.
\* A state is the parser's state, the field and the row being read, and
\* the rows read so far.
ReaderStart == [st |-> "START_RECORD", field |-> <<>>, row |-> <<>>,
                rows |-> <<>>]

IsLineBreak(c) == c \in {"\r", "\n"}

AfterBreak(c) == IF c = "\r" THEN "AFTER_CR" ELSE "START_RECORD"

\* the field being read ends here
SaveField(s) == [s EXCEPT !.row = Append(s.row, s.field), !.field = <<>>]

\* the row being read ends at the line break c
EndRecord(s, c) ==
    [st |-> AfterBreak(c), field |-> <<>>, row |-> <<>>,
     rows |-> Append(s.rows, s.row)]

ReadChar(s, c) ==
    CASE s.st = "AFTER_CR" /\ c = "\n" -> [s EXCEPT !.st = "START_RECORD"]
      [] s.st \in {"START_RECORD", "AFTER_CR"} /\ IsLineBreak(c) ->
            EndRecord(s, c)
      [] s.st \in {"START_RECORD", "AFTER_CR", "START_FIELD"} ->
            IF IsLineBreak(c) THEN EndRecord(SaveField(s), c)
            ELSE IF c = "\"" THEN [s EXCEPT !.st = "IN_QUOTED_FIELD"]
            ELSE IF c = "," THEN [SaveField(s) EXCEPT !.st = "START_FIELD"]
            ELSE [s EXCEPT !.st = "IN_FIELD", !.field = <<c>>]
      [] s.st = "IN_FIELD" ->
            IF IsLineBreak(c) THEN EndRecord(SaveField(s), c)
            ELSE IF c = "," THEN [SaveField(s) EXCEPT !.st = "START_FIELD"]
            ELSE [s EXCEPT !.field = Append(s.field, c)]
      [] s.st = "IN_QUOTED_FIELD" ->
            IF c = "\"" THEN [s EXCEPT !.st = "QUOTE_IN_QUOTED_FIELD"]
            ELSE [s EXCEPT !.field = Append(s.field, c)]
      [] s.st = "QUOTE_IN_QUOTED_FIELD" ->
            IF c = "\""
            THEN [s EXCEPT !.st = "IN_QUOTED_FIELD",
                           !.field = Append(s.field, c)]
            ELSE IF c = "," THEN [SaveField(s) EXCEPT !.st = "START_FIELD"]
            ELSE IF IsLineBreak(c) THEN EndRecord(SaveField(s), c)
            ELSE [s EXCEPT !.st = "IN_FIELD", !.field = Append(s.field, c)]

\* the end of the file: a row that no line break ended is a row too
ReadEnd(s) ==
    IF s.st \in {"START_RECORD", "AFTER_CR"}
    THEN s.rows
    ELSE Append(s.rows, Append(s.row, s.field))

RECURSIVE ReadFrom(_, _, _)
ReadFrom(text, i, s) ==
    IF i > Len(text)
    THEN ReadEnd(s)
    ELSE CHOOSE r \in {ReadFrom(text, i + 1, t) : t \in {ReadChar(s, text[i])}} :
             TRUE

ReadCsv(text) == ReadFrom(text, 1, ReaderStart)

====
